---- MODULE Spec2Model ----
(***************************************************************************)
(* packages/playwright-test/src/transform.ts: the transform cache          *)
(* (transformHook and its helpers), the per-directory tsconfig memo, and   *)
(* the call-site capture wrapper (wrapFunctionWithLocation).               *)
(*                                                                         *)
(* Strings are sequences of one-character strings, so that concatenation,  *)
(* endsWith, basename and the regular expressions of the source are        *)
(* computed and not assumed.  The sha1 digest is taken to be injective on  *)
(* the bytes fed to it: the digest of a byte stream is modelled by the     *)
(* stream itself.                                                          *)
(***************************************************************************)
EXTENDS Integers, Sequences, FiniteSets, TLC

VARIABLES
  env,               \* process.env: the three PW_* settings the file reads
  tsconfigOnDisk,    \* what tsConfigLoader({cwd}) finds for each directory
  cachedTSConfigs,   \* const cachedTSConfigs = new Map()           (line 37)
  loads,             \* history: the tsConfigLoader results per directory
  sourceMaps,        \* const sourceMaps = new Map()                (line 29)
  fsFiles,           \* files under cacheDir: path -> content
  fsDirs,            \* directories under cacheDir
  babel,             \* the transformation engine: its outcome per source text
  last,              \* history: the latest transformHook call
  prev,              \* history: the transformHook call before it
  ncalls,            \* history: number of transformHook calls so far
  prepareStackTrace, \* Error.prepareStackTrace
  stackTraceLimit,   \* Error.stackTraceLimit
  callStack,         \* active calls of wrapped functions, innermost last
  ended,             \* history: the latest wrapped call that ended
  captureFailed,     \* history: some capture has thrown
  keyIn,             \* two requests handed to calculateCachePath
  keyOut,            \* the two cache paths computed for them
  aliasIn,           \* a configuration and a specifier handed to an alias resolver
  aliasOut,          \* what validateTsConfig and the resolver made of them
  procs              \* processes sharing cacheDir: position within transformHook

pipelineVars == <<env, tsconfigOnDisk, cachedTSConfigs, loads, sourceMaps,
                  fsFiles, fsDirs, babel, last, prev, ncalls>>
wrapVars == <<prepareStackTrace, stackTraceLimit, callStack, ended, captureFailed>>
pureVars == <<keyIn, keyOut, aliasIn, aliasOut>>
storeVars == <<procs>>
vars == <<pipelineVars, wrapVars, pureVars, storeVars>>

----------------------------------------------------------------------------
(* String helpers (JavaScript String and node's posix path module).        *)

Slash == "/"

\* String.prototype.endsWith
EndsWith(s, suffix) ==
  /\ Len(suffix) <= Len(s)
  /\ SubSeq(s, Len(s) - Len(suffix) + 1, Len(s)) = suffix

\* String.prototype.startsWith
StartsWith(s, prefix) ==
  /\ Len(prefix) <= Len(s)
  /\ SubSeq(s, 1, Len(prefix)) = prefix

\* Index of the last occurrence of character c in s, 0 if there is none.
RECURSIVE LastIndexOf(_, _)
LastIndexOf(s, c) ==
  IF s = <<>> THEN 0
  ELSE IF s[Len(s)] = c THEN Len(s)
  ELSE LastIndexOf(SubSeq(s, 1, Len(s) - 1), c)

\* Index of the first occurrence of character c in s, 0 if there is none.
RECURSIVE IndexOf(_, _)
IndexOf(s, c) ==
  IF s = <<>> THEN 0
  ELSE IF Head(s) = c THEN 1
  ELSE LET i == IndexOf(Tail(s), c) IN IF i = 0 THEN 0 ELSE i + 1

\* The characters of s that satisfy keep, in order.
RECURSIVE Filter(_, _)
Filter(s, keep) ==
  IF s = <<>> THEN <<>>
  ELSE (IF Head(s) \in keep THEN <<Head(s)>> ELSE <<>>) \o Filter(Tail(s), keep)

\* \w of JavaScript regular expressions, over the characters the model uses.
WordChars == {"a", "b", "c", "d", "e", "f", "g", "h", "i", "j", "k", "l", "m",
              "n", "o", "p", "q", "r", "s", "t", "u", "v", "w", "x", "y", "z",
              "0", "1", "2", "3", "4", "5", "6", "7", "8", "9", "_"}

\* s.replace(/\W/g, '')
StripNonWord(s) == Filter(s, WordChars)

\* The last segment of a path.
LastSegment(p) == SubSeq(p, LastIndexOf(p, Slash) + 1, Len(p))

\* path.dirname
PathDirname(p) ==
  LET i == LastIndexOf(p, Slash)
  IN  IF i = 0 THEN <<".">>
      ELSE IF i = 1 THEN <<Slash>>
      ELSE SubSeq(p, 1, i - 1)

\* path.extname: from the last '.' of the last segment, unless that '.' is
\* the segment's first character or there is none.
PathExtname(p) ==
  LET b == LastSegment(p)
      i == LastIndexOf(b, ".")
  IN  IF i <= 1 THEN <<>> ELSE SubSeq(b, i, Len(b))

\* path.basename(p, ext)
PathBasename(p, ext) ==
  LET b == LastSegment(p)
  IN  IF ext # <<>> /\ ext # b /\ EndsWith(b, ext)
      THEN SubSeq(b, 1, Len(b) - Len(ext))
      ELSE b

\* The segments of a path, split at '/'.
RECURSIVE Split(_)
Split(p) ==
  LET i == IndexOf(p, Slash)
  IN  IF i = 0 THEN <<p>>
      ELSE <<SubSeq(p, 1, i - 1)>> \o Split(SubSeq(p, i + 1, Len(p)))

\* Normalisation of absolute-path segments: '' and '.' vanish, '..' pops.
RECURSIVE NormSegments(_, _)
NormSegments(segs, acc) ==
  IF segs = <<>> THEN acc
  ELSE LET h == Head(segs)
       IN  IF h = <<>> \/ h = <<".">> THEN NormSegments(Tail(segs), acc)
           ELSE IF h = <<".", ".">>
             THEN NormSegments(Tail(segs),
                    IF acc = <<>> THEN acc ELSE SubSeq(acc, 1, Len(acc) - 1))
           ELSE NormSegments(Tail(segs), Append(acc, h))

RECURSIVE JoinSegments(_)
JoinSegments(segs) ==
  IF segs = <<>> THEN <<>>
  ELSE <<Slash>> \o Head(segs) \o JoinSegments(Tail(segs))

\* path.resolve(base, rel) for an absolute base.
PathResolve(base, rel) ==
  LET full == IF StartsWith(rel, <<Slash>>) THEN rel ELSE base \o <<Slash>> \o rel
      segs == NormSegments(Split(full), <<>>)
  IN  IF segs = <<>> THEN <<Slash>> ELSE JoinSegments(segs)

\* path.join of three parts none of which needs normalising.
PathJoin3(a, b, c) == a \o <<Slash>> \o b \o <<Slash>> \o c

\* JSON.stringify of a string: quoted, with '"' and '\' escaped.
RECURSIVE JsonEscape(_)
JsonEscape(s) ==
  IF s = <<>> THEN <<>>
  ELSE (IF Head(s) \in {"\"", "\\"} THEN <<"\\", Head(s)>> ELSE <<Head(s)>>)
       \o JsonEscape(Tail(s))

JsonString(s) == <<"\"">> \o JsonEscape(s) \o <<"\"">>

\* The members of a JSON object whose entries are <<key, value>> pairs of
\* strings, in the order of the entries.
RECURSIVE JsonMembers(_)
JsonMembers(entries) ==
  IF entries = <<>> THEN <<>>
  ELSE JsonString(entries[1][1]) \o <<":">> \o JsonString(entries[1][2])
       \o (IF Len(entries) > 1 THEN <<",">> ELSE <<>>)
       \o JsonMembers(Tail(entries))

----------------------------------------------------------------------------
(* Constants of the module.                                                *)

version == 6
kStackTraceLimit == 15

\* String(n) for a one-digit n
Digits == <<"0", "1", "2", "3", "4", "5", "6", "7", "8", "9">>
VersionString(n) == <<Digits[n + 1]>>

\* process.env.PWTEST_CACHE_DIR || path.join(os.tmpdir(), ...)
cacheDir == <<Slash, "t", "m", "p", Slash, "c">>

----------------------------------------------------------------------------
(* validateTsConfig (lines 70-108).                                        *)

Undefined == [defined |-> FALSE]

\* A character class [*./\\] of the ambiguity test.
AmbiguousChars == {"*", ".", Slash, "\\"}

\* key.match(/^[*./\\]+$/)
IsAmbiguousKey(key) ==
  /\ key # <<>>
  /\ \A i \in 1..Len(key) : key[i] \in AmbiguousChars

\* key.replace('*', '.*'): the first '*' only.
ReplaceFirstStar(key) ==
  LET i == IndexOf(key, "*")
  IN  IF i = 0 THEN key
      ELSE SubSeq(key, 1, i - 1) \o <<".", "*">> \o SubSeq(key, i + 1, Len(key))

\* Object.fromEntries(Object.entries(paths).map(([k, vs]) => [k, vs[0]]))
SinglePathOf(paths) == [i \in 1..Len(paths) |-> <<paths[i][1], paths[i][2][1]>>]

\* JSON.stringify({ absoluteBaseUrl, singlePath })
ConfigHash(absoluteBaseUrl, singlePath) ==
  <<"{", "\"", "absoluteBaseUrl", "\"", ":">> \o JsonString(absoluteBaseUrl)
  \o <<",", "\"", "singlePath", "\"", ":", "{">> \o JsonMembers(singlePath)
  \o <<"}", "}">>

\* The alias table: one resolver per key; a resolver closes over key and value.
AliasOf(singlePath) ==
  [i \in 1..Len(singlePath) |->
     [regexKey |-> <<"^">> \o ReplaceFirstStar(singlePath[i][1]),
      key      |-> singlePath[i][1],
      value    |-> singlePath[i][2]]]

\* A resolver that returns the target as it is for every key.
AliasResolveFixed(absoluteBaseUrl, entry, name) ==
  PathResolve(absoluteBaseUrl, entry.value)

\* The resolver installed for an alias entry, applied to the match [name].
AliasResolve(absoluteBaseUrl, entry, name) ==
  LET relative ==
        IF EndsWith(entry.key, <<Slash, "*">>)
        THEN SubSeq(entry.value, 1, Len(entry.value) - 1)
             \o SubSeq(name, Len(entry.key), Len(name))
        ELSE entry.value
  IN  PathResolve(absoluteBaseUrl, relative)

\* Object.keys(paths).find(test): the first key whose entry passes the test
\* (passes is the set of indices of the entries that pass).
\* When there is none the result is undefined, given here as '': the result
\* is only ever tested for truthiness, and '' is as falsy as undefined.
FindKey(paths, passes) ==
  IF passes = {} THEN <<>>
  ELSE paths[CHOOSE i \in passes : \A j \in passes : i <= j][1]

validateTsConfig(tsconfig) ==
  IF tsconfig.tsConfigPath = <<>> \/ ~tsconfig.paths.defined \/ tsconfig.baseUrl = <<>>
  THEN Undefined
  ELSE LET paths == tsconfig.paths.entries
           ambiguousPath ==
             FindKey(paths, {i \in 1..Len(paths) : IsAmbiguousKey(paths[i][1])})
           multiplePath ==
             FindKey(paths, {i \in 1..Len(paths) : Len(paths[i][2]) > 1})
       IN  IF ambiguousPath # <<>>
           THEN Undefined
           ELSE IF multiplePath # <<>>
           THEN Undefined
           ELSE LET singlePath == SinglePathOf(paths)
                    absoluteBaseUrl ==
                      PathResolve(PathDirname(tsconfig.tsConfigPath), tsconfig.baseUrl)
                IN  [defined         |-> TRUE,
                     absoluteBaseUrl |-> absoluteBaseUrl,
                     singlePath      |-> singlePath,
                     hash            |-> ConfigHash(absoluteBaseUrl, singlePath),
                     alias           |-> AliasOf(singlePath)]

----------------------------------------------------------------------------
(* calculateCachePath (lines 58-68).                                       *)

\* tsconfigData?.hash || ''
HashOrEmpty(tsconfigData) == IF tsconfigData.defined THEN tsconfigData.hash ELSE <<>>

\* process.env.PW_EXPERIMENTAL_TS_ESM ? 'esm' : 'no_esm'
EsmString(esm) == IF esm THEN <<"e", "s", "m">> ELSE <<"n", "o", "_", "e", "s", "m">>

\* The bytes fed to the digest by the five update() calls, in order.
DigestInput(configHash, esm, content, filePath, ver) ==
  configHash \o EsmString(esm) \o content \o filePath \o VersionString(ver)

\* crypto.createHash('sha1')...digest('hex'), injective by assumption.
Digest(bytes) == bytes

\* The path built from a digest: cacheDir/<hash[0]hash[1]>/<stem>_<hash>
CachePathOf(hash, filePath) ==
  LET fileName == StripNonWord(PathBasename(filePath, PathExtname(filePath)))
                  \o <<"_">> \o hash
  IN  PathJoin3(cacheDir, <<hash[1], hash[2]>>, fileName)

calculateCachePath(tsconfigData, esm, content, filePath) ==
  CachePathOf(Digest(DigestInput(HashOrEmpty(tsconfigData), esm, content,
                                 filePath, version)),
              filePath)

----------------------------------------------------------------------------
(* isComponentImport and componentStub (lines 221-235).                    *)

\* A classification that forgets the spec/test exclusion.
isComponentImportNoExclusion(componentTesting, filename) ==
  /\ componentTesting
  /\ \/ EndsWith(filename, <<".", "t", "s", "x">>)
     \/ EndsWith(filename, <<".", "j", "s", "x">>)

isComponentImport(componentTesting, filename) ==
  IF ~componentTesting THEN FALSE
  ELSE IF /\ EndsWith(filename, <<".", "t", "s", "x">>)
          /\ ~EndsWith(filename, <<"s", "p", "e", "c", ".", "t", "s", "x">>)
          /\ ~EndsWith(filename, <<"t", "e", "s", "t", ".", "t", "s", "x">>)
       THEN TRUE
  ELSE IF /\ EndsWith(filename, <<".", "j", "s", "x">>)
          /\ ~EndsWith(filename, <<"s", "p", "e", "c", ".", "j", "s", "x">>)
          /\ ~EndsWith(filename, <<"t", "e", "s", "t", ".", "j", "s", "x">>)
       THEN TRUE
  ELSE FALSE

componentStub == [kind |-> "stub"]

----------------------------------------------------------------------------
(* The inputs of the model: source files, source texts, configurations.    *)

MaxCalls == 2

\* /a/b.ts, /b.ts, /b.tsx, /a/test.tsx
FileAB == <<Slash, "a", Slash, "b", ".", "t", "s">>
FileB == <<Slash, "b", ".", "t", "s">>
FileComp == <<Slash, "b", ".", "t", "s", "x">>
FileTest == <<Slash, "a", Slash, "t", "e", "s", "t", ".", "t", "s", "x">>
Files == {FileAB, FileB, FileComp, FileTest}
Dirs == {PathDirname(f) : f \in Files}

\* Source texts: 'x' and 'x/a'.
TextX == <<"x">>
TextXA == <<"x", Slash, "a">>
Contents == {TextX, TextXA}

\* The (source text, file) pairs the loader hands to transformHook.
Requests == {<<TextX, FileAB>>, <<TextXA, FileB>>, <<TextX, FileB>>,
             <<TextX, FileComp>>, <<TextX, FileTest>>}

\* tsconfig.json paths: lib/* -> ./src/lib/*; with a second, ambiguous key
\* ./*; with two targets for lib/*.
KeyLib == <<"l", "i", "b", Slash, "*">>
TargetLib == <<".", Slash, "s", "r", "c", Slash, "l", "i", "b", Slash, "*">>
TargetAlt == <<".", Slash, "a", "l", "t", Slash, "*">>
KeyAmbiguous == <<".", Slash, "*">>
TsConfigPath == <<Slash, "t", "s", "c", "o", "n", "f", "i", "g", ".", "j", "s", "o", "n">>

NoPaths == [defined |-> FALSE, entries |-> <<>>]
PathsOf(entries) == [defined |-> TRUE, entries |-> entries]

\* TsConfigLoaderResult values: nothing found; an accepted configuration; one
\* with an ambiguous key beside a valid one; one with two targets for a key.
RawNone == [tsConfigPath |-> <<>>, baseUrl |-> <<>>, paths |-> NoPaths]
RawValid == [tsConfigPath |-> TsConfigPath, baseUrl |-> <<".">>,
             paths |-> PathsOf(<< <<KeyLib, <<TargetLib>> >> >>)]
RawAmbiguous == [tsConfigPath |-> TsConfigPath, baseUrl |-> <<".">>,
                 paths |-> PathsOf(<< <<KeyLib, <<TargetLib>> >>,
                                      <<KeyAmbiguous, <<TargetAlt>> >> >>)]
RawMultiple == [tsConfigPath |-> TsConfigPath, baseUrl |-> <<".">>,
                paths |-> PathsOf(<< <<KeyLib, <<TargetLib, TargetAlt>> >> >>)]
\* paths: { "": ["./src/lib/*", "./alt/*"] }
RawEmptyKey == [tsConfigPath |-> TsConfigPath, baseUrl |-> <<".">>,
                paths |-> PathsOf(<< <<<<>>, <<TargetLib, TargetAlt>> >> >>)]
RawConfigs == {RawNone, RawValid, RawAmbiguous, RawMultiple, RawEmptyKey}

----------------------------------------------------------------------------
(* The transformation engine (babel.transformFileSync, lines 136-182): an  *)
(* external pure function.  Its plugin chain depends on the alias table,   *)
(* on PW_COMPONENT_TESTING and on isModule; whether it throws, and whether *)
(* it yields code and a map, is a property of the source text.             *)

EngineOutcomes == {"code+map", "code", "empty", "throws"}

\* The plugin chain handed to the engine (lines 138-167).
Plugins(tsconfigData, componentTesting, isModule) ==
  [alias    |-> IF tsconfigData.defined THEN tsconfigData.alias ELSE <<>>,
   jsx      |-> componentTesting,
   commonjs |-> ~isModule]

NoCode == [kind |-> "none"]

\* babel.transformFileSync(filename, {plugins, sourceMaps: 'both', ...}).
\* The engine reads the file itself; content is that text, which is also what
\* the loader passes to transformHook as code.
TransformFileSync(engine, content, filename, plugins) ==
  LET outcome == engine[content]
  IN  [threw |-> outcome = "throws",
       code  |-> IF outcome \in {"code+map", "code"}
                 THEN [kind |-> "js", src |-> content, file |-> filename,
                       plugins |-> plugins]
                 ELSE NoCode,
       map   |-> IF outcome = "code+map"
                 THEN [kind |-> "map", src |-> content, file |-> filename,
                       plugins |-> plugins]
                 ELSE NoCode]

----------------------------------------------------------------------------
(* loadAndValidateTsconfigForFile (lines 110-120).                         *)

\* A resolver that runs discovery on every call.
LoadMemoAlways(memo, onDisk, file) ==
  (PathDirname(file) :> validateTsConfig(onDisk[PathDirname(file)])) @@ memo

\* The memo table after the call for a file.
LoadMemo(memo, onDisk, file) ==
  LET cwd == PathDirname(file)
  IN  IF cwd \in DOMAIN memo THEN memo
      ELSE (cwd :> validateTsConfig(onDisk[cwd])) @@ memo

\* Whether the call for a file runs tsConfigLoader.
LoaderRuns(memo, file) == PathDirname(file) \notin DOMAIN memo

loadAndValidateTsconfigForFile(memo, onDisk, file) ==
  LoadMemo(memo, onDisk, file)[PathDirname(file)]

----------------------------------------------------------------------------
(* transformHook (lines 122-190).                                          *)

JsExt == <<".", "j", "s">>
MapExt == <<".", "m", "a", "p">>

\* A registry that keeps a file's first entry.
RegisterSourceMapOnce(registry, filename, sourceMapPath) ==
  IF filename \in DOMAIN registry THEN registry
  ELSE (filename :> sourceMapPath) @@ registry

\* sourceMaps.set(filename, sourceMapPath)
RegisterSourceMap(registry, filename, sourceMapPath) ==
  (filename :> sourceMapPath) @@ registry

\* A probe that does not consult the override.
CacheHitNoOverride(ignoreCache, files, codePath) == codePath \in DOMAIN files

\* !process.env.PW_IGNORE_COMPILE_CACHE && fs.existsSync(codePath)
CacheHit(ignoreCache, files, codePath) ==
  ~ignoreCache /\ codePath \in DOMAIN files

\* A persist step that writes the map and forgets the code file.
PersistMapOnly(files, result, codePath, sourceMapPath) ==
  IF result.code = NoCode \/ result.map = NoCode THEN files
  ELSE (sourceMapPath :> result.map) @@ files

\* A persist step that also writes the code file of an empty result.
PersistEmptyToo(files, result, codePath, sourceMapPath) ==
  LET withMap == IF result.map = NoCode THEN files
                 ELSE (sourceMapPath :> result.map) @@ files
  IN  (codePath :> result.code) @@ withMap

\* The files after lines 183-188 for an engine result that did not throw.
Persist(files, result, codePath, sourceMapPath) ==
  IF result.code = NoCode THEN files
  ELSE LET withMap == IF result.map = NoCode THEN files
                      ELSE (sourceMapPath :> result.map) @@ files
       IN  (codePath :> result.code) @@ withMap

\* The directories after fs.mkdirSync(path.dirname(cachePath), {recursive}).
Mkdir(dirs, result, cachePath) ==
  IF result.code = NoCode THEN dirs ELSE dirs \cup {PathDirname(cachePath)}

NoCall == [outcome |-> "none"]

TransformHook(code, filename, isModule) ==
  /\ ncalls < MaxCalls
  /\ ncalls' = ncalls + 1
  /\ prev' = last
  /\ UNCHANGED <<env, tsconfigOnDisk, babel, wrapVars, pureVars, storeVars>>
  /\ IF isComponentImport(env.PW_COMPONENT_TESTING, filename)
     THEN /\ last' = [outcome |-> "stub", code |-> code, filename |-> filename,
                      isModule |-> isModule, env |-> env,
                      returned |-> componentStub, engine |-> FALSE,
                      cachePath |-> <<>>, loaded |-> FALSE,
                      tsconfigData |-> Undefined]
          /\ UNCHANGED <<cachedTSConfigs, loads, sourceMaps, fsFiles, fsDirs>>
     ELSE LET cwd == PathDirname(filename)
              loaded == LoaderRuns(cachedTSConfigs, filename)
              tsconfigData ==
                loadAndValidateTsconfigForFile(cachedTSConfigs, tsconfigOnDisk, filename)
              cachePath == calculateCachePath(tsconfigData,
                             env.PW_EXPERIMENTAL_TS_ESM, code, filename)
              codePath == cachePath \o JsExt
              sourceMapPath == cachePath \o MapExt
              hit == CacheHit(env.PW_IGNORE_COMPILE_CACHE, fsFiles, codePath)
              result == TransformFileSync(babel, code, filename,
                          Plugins(tsconfigData, env.PW_COMPONENT_TESTING, isModule))
              call == [code |-> code, filename |-> filename, isModule |-> isModule,
                       env |-> env, cachePath |-> cachePath, loaded |-> loaded,
                       tsconfigData |-> tsconfigData]
          IN  /\ cachedTSConfigs' = LoadMemo(cachedTSConfigs, tsconfigOnDisk, filename)
              /\ loads' = IF loaded
                          THEN [loads EXCEPT ![cwd] = Append(@, tsconfigOnDisk[cwd])]
                          ELSE loads
              /\ sourceMaps' = RegisterSourceMap(sourceMaps, filename, sourceMapPath)
              /\ IF hit
                 THEN /\ last' = call @@ [outcome |-> "hit", engine |-> FALSE,
                                          returned |-> fsFiles[codePath]]
                      /\ UNCHANGED <<fsFiles, fsDirs>>
                 ELSE IF result.threw
                 THEN /\ last' = call @@ [outcome |-> "threw", engine |-> TRUE,
                                          returned |-> [kind |-> "exception"]]
                      /\ UNCHANGED <<fsFiles, fsDirs>>
                 ELSE /\ last' = call @@
                           [outcome |-> IF result.code = NoCode THEN "empty" ELSE "miss",
                            engine |-> TRUE,
                            returned |-> IF result.code = NoCode
                                         THEN [kind |-> "empty"] ELSE result.code]
                      /\ fsDirs' = Mkdir(fsDirs, result, cachePath)
                      /\ fsFiles' = Persist(fsFiles, result, codePath, sourceMapPath)

\* A transformHook call made by the module loader or by a test.
Transform ==
  \E req \in Requests, isModule \in BOOLEAN :
    TransformHook(req[1], req[2], isModule)

\* The environment: process.env is written between calls.
SetEnv ==
  /\ \E name \in {"PW_COMPONENT_TESTING", "PW_IGNORE_COMPILE_CACHE"} :
       env' = [env EXCEPT ![name] = ~@]
  /\ UNCHANGED <<tsconfigOnDisk, cachedTSConfigs, loads, sourceMaps, fsFiles,
                 fsDirs, babel, last, prev, ncalls, wrapVars, pureVars, storeVars>>

\* The environment: the tsconfig.json that governs the directory /a is
\* edited, added or removed while the process runs.
EditedDir == PathDirname(FileAB)
EditTsconfig ==
  /\ \E raw \in RawConfigs :
       /\ raw # tsconfigOnDisk[EditedDir]
       /\ tsconfigOnDisk' = [tsconfigOnDisk EXCEPT ![EditedDir] = raw]
  /\ UNCHANGED <<env, cachedTSConfigs, loads, sourceMaps, fsFiles, fsDirs,
                 babel, last, prev, ncalls, wrapVars, pureVars, storeVars>>

----------------------------------------------------------------------------
(* Initial states.                                                         *)

EmptyMap == <<>>

\* After the module is loaded: line 40 has set the limit and
\* sourceMapSupport.install (line 42) has installed its formatter.
WrapIdle ==
  /\ prepareStackTrace = "sourceMapSupport"
  /\ stackTraceLimit = kStackTraceLimit
  /\ callStack = <<>>
  /\ ended = [how |-> "none"]
  /\ captureFailed = FALSE

PureIdle == keyIn = <<>> /\ keyOut = <<>> /\ aliasIn = <<>> /\ aliasOut = <<>>

\* No process is modelled step by step.
StoreIdle == procs = <<>>

\* Two engines: one yields code for every text (without a map for 'x'); the
\* other yields no code for 'x' and throws on 'x/a'.
EngineProfiles ==
  {[c \in Contents |-> IF c = TextX THEN "code" ELSE "code+map"],
   [c \in Contents |-> IF c = TextX THEN "empty" ELSE "throws"]}

\* The environment is set before the process starts; the settings read on
\* every call (lines 131, 161, 222) may also be written while it runs.
PipelineInit ==
  /\ env \in [{"PW_COMPONENT_TESTING", "PW_EXPERIMENTAL_TS_ESM",
               "PW_IGNORE_COMPILE_CACHE"} -> BOOLEAN]
  /\ env.PW_COMPONENT_TESTING = FALSE
  /\ env.PW_IGNORE_COMPILE_CACHE = FALSE
  /\ \E raw \in {RawNone, RawValid} : tsconfigOnDisk = [d \in Dirs |-> raw]
  /\ cachedTSConfigs = EmptyMap
  /\ loads = [d \in Dirs |-> <<>>]
  /\ sourceMaps = EmptyMap
  /\ fsFiles = EmptyMap
  /\ fsDirs = {}
  /\ babel \in EngineProfiles
  /\ last = NoCall
  /\ prev = NoCall
  /\ ncalls = 0

Init == PipelineInit /\ WrapIdle /\ PureIdle /\ StoreIdle

Next == Transform \/ SetEnv

Spec == Init /\ [][Next]_vars

\* The configuration resolver under edits of the tsconfig.json files.
ConfigInit ==
  /\ env = [n \in {"PW_COMPONENT_TESTING", "PW_EXPERIMENTAL_TS_ESM",
                   "PW_IGNORE_COMPILE_CACHE"} |-> FALSE]
  /\ tsconfigOnDisk \in [Dirs -> RawConfigs]
  /\ cachedTSConfigs = EmptyMap
  /\ loads = [d \in Dirs |-> <<>>]
  /\ sourceMaps = EmptyMap
  /\ fsFiles = EmptyMap
  /\ fsDirs = {}
  /\ babel = [c \in Contents |-> "code+map"]
  /\ last = NoCall
  /\ prev = NoCall
  /\ ncalls = 0

InitConfig == ConfigInit /\ WrapIdle /\ PureIdle /\ StoreIdle

NextConfig == Transform \/ EditTsconfig

SpecConfig == InitConfig /\ [][NextConfig]_vars

----------------------------------------------------------------------------
(* wrapFunctionWithLocation (lines 196-218).  A call of the returned       *)
(* function runs lines 198-213 (save the formatter, install the capture    *)
(* formatter, set the limit to 2, capture), then lines 214-215 (reset the  *)
(* limit, put the saved formatter back), then func (line 216).  func is    *)
(* code of the caller: it may call wrapped functions itself, return or     *)
(* throw.  The capture formatter runs sourceMapSupport.wrapCallSite on     *)
(* stackFrames[1]; it throws when there is no such frame or when the map   *)
(* registered for the file cannot be parsed (line 52).                     *)

MaxDepth == 2

\* Formatters and limits that code outside wrapped calls may install.
UserFormatters == {"sourceMapSupport", "user"}
UserLimits == {kStackTraceLimit, 50}
CaptureFormatter == "capture"

Top == callStack[Len(callStack)]
InFunc == callStack # <<>> /\ Top.pc = "func"
MayCall == Len(callStack) < MaxDepth /\ (callStack = <<>> \/ InFunc)

\* Lines 198-213, the capture succeeds.
WrapCapture ==
  /\ MayCall
  /\ callStack' = Append(callStack,
                     [pc |-> "captured",
                      oldPrepareStackTrace |-> prepareStackTrace,
                      limitBefore |-> stackTraceLimit,
                      atInvoke |-> "none"])
  /\ prepareStackTrace' = CaptureFormatter
  /\ stackTraceLimit' = 2
  /\ UNCHANGED <<ended, captureFailed, pipelineVars, pureVars, storeVars>>

\* Lines 198-213, the capture formatter throws: the exception leaves the
\* wrapper from line 212/213 and reaches the caller, which may handle it.
WrapCaptureThrows ==
  /\ MayCall
  /\ prepareStackTrace' = CaptureFormatter
  /\ stackTraceLimit' = 2
  /\ ended' = [how |-> "captureThrew",
               prepareBefore |-> prepareStackTrace, prepareAfter |-> CaptureFormatter,
               limitBefore |-> stackTraceLimit, limitAfter |-> 2]
  /\ captureFailed' = TRUE
  /\ UNCHANGED <<callStack, pipelineVars, pureVars, storeVars>>

\* Lines 214-216: reset the limit, restore the formatter, invoke func.
WrapRestore ==
  /\ callStack # <<>> /\ Top.pc = "captured"
  /\ stackTraceLimit' = kStackTraceLimit
  /\ prepareStackTrace' = Top.oldPrepareStackTrace
  /\ callStack' = [callStack EXCEPT ![Len(callStack)] =
                     [@ EXCEPT !.pc = "func",
                               !.atInvoke = Top.oldPrepareStackTrace]]
  /\ UNCHANGED <<ended, captureFailed, pipelineVars, pureVars, storeVars>>

\* func ends, by return or by throw; the wrapper adds nothing after it.
FuncEnds(how) ==
  /\ InFunc
  /\ callStack' = SubSeq(callStack, 1, Len(callStack) - 1)
  /\ ended' = [how |-> how,
               prepareBefore |-> Top.oldPrepareStackTrace,
               prepareAfter |-> prepareStackTrace,
               limitBefore |-> Top.limitBefore,
               limitAfter |-> stackTraceLimit]
  /\ UNCHANGED <<prepareStackTrace, stackTraceLimit, captureFailed,
                 pipelineVars, pureVars, storeVars>>

FuncReturns == FuncEnds("returned")
FuncThrows == FuncEnds("threw")

\* Code outside any wrapped call assigns Error.prepareStackTrace.
SetFormatter ==
  /\ callStack = <<>>
  /\ \E f \in UserFormatters :
       f # prepareStackTrace /\ prepareStackTrace' = f
  /\ UNCHANGED <<stackTraceLimit, callStack, ended, captureFailed,
                 pipelineVars, pureVars, storeVars>>

\* Code outside any wrapped call assigns Error.stackTraceLimit.
SetLimit ==
  /\ callStack = <<>>
  /\ \E n \in UserLimits :
       n # stackTraceLimit /\ stackTraceLimit' = n
  /\ UNCHANGED <<prepareStackTrace, callStack, ended, captureFailed,
                 pipelineVars, pureVars, storeVars>>

PipelineIdle ==
  /\ env = [n \in {"PW_COMPONENT_TESTING", "PW_EXPERIMENTAL_TS_ESM",
                   "PW_IGNORE_COMPILE_CACHE"} |-> FALSE]
  /\ tsconfigOnDisk = [d \in Dirs |-> RawNone]
  /\ cachedTSConfigs = EmptyMap
  /\ loads = [d \in Dirs |-> <<>>]
  /\ sourceMaps = EmptyMap
  /\ fsFiles = EmptyMap
  /\ fsDirs = {}
  /\ babel = [c \in Contents |-> "code+map"]
  /\ last = NoCall
  /\ prev = NoCall
  /\ ncalls = 0

InitWrap == PipelineIdle /\ WrapIdle /\ PureIdle /\ StoreIdle

NextWrap ==
  \/ WrapCapture
  \/ WrapCaptureThrows
  \/ WrapRestore
  \/ FuncReturns
  \/ FuncThrows
  \/ SetFormatter
  \/ SetLimit

SpecWrap == InitWrap /\ [][NextWrap]_vars

\* calculateCachePath as a function of its inputs: two requests are drawn,
\* then both cache paths are computed.
KeyConfigs == {Undefined, validateTsConfig(RawValid)}
KeyRequests ==
  [tsconfigData : KeyConfigs, esm : BOOLEAN, content : Contents, filePath : Files]

KeyInit ==
  /\ keyIn \in KeyRequests \X KeyRequests
  /\ keyOut = <<>>
  /\ aliasIn = <<>>
  /\ aliasOut = <<>>

ComputeKeys ==
  /\ keyOut = <<>>
  /\ keyOut' = [i \in 1..2 |->
                  calculateCachePath(keyIn[i].tsconfigData, keyIn[i].esm,
                                     keyIn[i].content, keyIn[i].filePath)]
  /\ UNCHANGED <<keyIn, aliasIn, aliasOut, pipelineVars, wrapVars, storeVars>>

InitKey == KeyInit /\ WrapIdle /\ PipelineIdle /\ StoreIdle

NextKey == ComputeKeys

SpecKey == InitKey /\ [][NextKey]_vars

\* The alias resolvers of validateTsConfig as functions of their inputs: a
\* loader result and an import specifier are drawn, then the configuration
\* is validated and every resolver whose pattern matches is applied.

\* Keys and targets: lib/* -> ./src/lib/* (KeyLib), app -> ./src/app.
KeyFixed == <<"a", "p", "p">>
TargetFixed == <<".", Slash, "s", "r", "c", Slash, "a", "p", "p">>
TsConfigPathA ==
  <<Slash, "a", Slash, "t", "s", "c", "o", "n", "f", "i", "g", ".", "j", "s", "o", "n">>

AliasPaths ==
  { << <<KeyLib, <<TargetLib>> >> >>,
    << <<KeyFixed, <<TargetFixed>> >> >>,
    << <<KeyLib, <<TargetLib>> >>, <<KeyFixed, <<TargetFixed>> >> >> }

AliasRaws ==
  { [tsConfigPath |-> t, baseUrl |-> b, paths |-> PathsOf(e)] :
      t \in {TsConfigPath, TsConfigPathA},
      b \in {<<".">>, <<"s", "r", "c">>},
      e \in AliasPaths }

\* Import specifiers: lib/foo, lib/foo/bar, lib/, app, app/x, zed.
Specifiers ==
  { <<"l", "i", "b", Slash, "f", "o", "o">>,
    <<"l", "i", "b", Slash, "f", "o", "o", Slash, "b", "a", "r">>,
    <<"l", "i", "b", Slash>>,
    <<"a", "p", "p">>,
    <<"a", "p", "p", Slash, "x">>,
    <<"z", "e", "d">> }

NoMatch == [matched |-> FALSE]

\* The match of the regular expression '^' + key.replace('*', '.*') (line
\* 90) on a specifier, for a key whose only '*' is its last character or
\* that has none, and whose other characters stand for themselves: match[0]
\* is the whole specifier when the key ends in '*' ('.*' runs to the end of
\* the line), else the key itself.
RegexMatch(key, specifier) ==
  LET i == IndexOf(key, "*")
      prefix == IF i = 0 THEN key ELSE SubSeq(key, 1, i - 1)
  IN  IF ~StartsWith(specifier, prefix) THEN NoMatch
      ELSE [matched |-> TRUE, name |-> IF i = 0 THEN key ELSE specifier]

AliasInit ==
  /\ aliasIn \in [raw : AliasRaws, specifier : Specifiers]
  /\ aliasOut = <<>>
  /\ keyIn = <<>>
  /\ keyOut = <<>>

\* validateTsConfig (lines 70-108), then the module resolver applies each
\* alias entry whose pattern matches to the match array (lines 91-99).
ResolveAlias ==
  /\ aliasOut = <<>>
  /\ LET tsconfigData == validateTsConfig(aliasIn.raw)
         alias == IF tsconfigData.defined THEN tsconfigData.alias ELSE <<>>
     IN  aliasOut' =
           [tsconfigData |-> tsconfigData,
            resolved |->
              [i \in 1..Len(alias) |->
                 LET m == RegexMatch(alias[i].key, aliasIn.specifier)
                 IN  IF m.matched
                     THEN [matched |-> TRUE, name |-> m.name,
                           path |-> AliasResolve(tsconfigData.absoluteBaseUrl,
                                                 alias[i], m.name)]
                     ELSE NoMatch]]
  /\ UNCHANGED <<aliasIn, keyIn, keyOut, pipelineVars, wrapVars, storeVars>>

InitAlias == AliasInit /\ WrapIdle /\ PipelineIdle /\ StoreIdle

NextAlias == ResolveAlias

SpecAlias == InitAlias /\ [][NextAlias]_vars

----------------------------------------------------------------------------
(* retrieveSourceMap of sourceMapSupport.install (lines 42-56).            *)

Null == [kind |-> "null"]

retrieveSourceMap(registry, files, source) ==
  IF source \notin DOMAIN registry THEN Null
  ELSE IF registry[source] \notin DOMAIN files THEN Null
  ELSE [kind |-> "sourcemap", map |-> files[registry[source]], url |-> source]

----------------------------------------------------------------------------
(* transformHook step by step (lines 122-190), for processes that share    *)
(* cacheDir.  Every file-system call of the source is a step of its own:   *)
(* fs.existsSync (131), fs.readFileSync (132), fs.mkdirSync (184) and the  *)
(* two fs.writeFileSync calls (186, 187).  writeFileSync opens its file    *)
(* with truncation and then writes the bytes, so a file being written      *)
(* exists and is empty or holds a prefix: the open and the fill are two    *)
(* steps.  A file-system call may fail with an exception, which no line of *)
(* transformHook catches, and a process may be killed between any two      *)
(* steps.  Files are never deleted.                                        *)

MaxRuns == 2

Procs == {"p1", "p2"}

\* All processes transform the same file with the same text: 'x/a' of /b.ts.
StoreCode == TextXA
StoreFile == FileB
StoreCachePath == calculateCachePath(Undefined, FALSE, StoreCode, StoreFile)
StoreCodePath == StoreCachePath \o JsExt
StoreMapPath == StoreCachePath \o MapExt

\* The result of line 169 for the request.
StoreResult ==
  TransformFileSync(babel, StoreCode, StoreFile, Plugins(Undefined, FALSE, FALSE))

\* The content of a file that was opened with truncation and is not yet
\* written in full.
Truncated == [kind |-> "truncated"]

NoValue == [kind |-> "none"]

\* A process that is not inside transformHook.
FreshProc(ignoreCache) ==
  [pc |-> "idle", ignoreCache |-> ignoreCache, registry |-> EmptyMap,
   outcome |-> "none", returned |-> NoValue, readFailed |-> FALSE, runs |-> 0]

\* The call of process p ends: by return or by an exception.
EndCall(p, outcome, returned) ==
  procs' = [procs EXCEPT ![p].pc = "idle", ![p].outcome = outcome,
                         ![p].returned = returned, ![p].runs = @ + 1]

Goto(p, pc) == procs' = [procs EXCEPT ![p].pc = pc]

\* Lines 122-130: the key is computed and the map path registered.
Enter(p) ==
  /\ procs[p].pc = "idle"
  /\ procs[p].runs < MaxRuns
  /\ procs' = [procs EXCEPT
       ![p].pc = "probe",
       ![p].registry = RegisterSourceMap(@, StoreFile, StoreMapPath),
       ![p].outcome = "none",
       ![p].returned = NoValue,
       ![p].readFailed = FALSE]
  /\ UNCHANGED <<pipelineVars, wrapVars, pureVars>>

\* Line 131: the override and fs.existsSync(codePath).
Probe(p) ==
  /\ procs[p].pc = "probe"
  /\ Goto(p, IF CacheHit(procs[p].ignoreCache, fsFiles, StoreCodePath)
             THEN "read" ELSE "engine")
  /\ UNCHANGED <<pipelineVars, wrapVars, pureVars>>

\* Line 132: fs.readFileSync(codePath) returns what the file holds now.
ReadCode(p) ==
  /\ procs[p].pc = "read"
  /\ StoreCodePath \in DOMAIN fsFiles
  /\ EndCall(p, "hit", fsFiles[StoreCodePath])
  /\ UNCHANGED <<pipelineVars, wrapVars, pureVars>>

\* Line 132: fs.readFileSync(codePath) throws (EACCES, EIO, EMFILE, ...).
\* Nothing catches the exception: it leaves transformHook.
ReadCodeFails(p) ==
  /\ procs[p].pc = "read"
  /\ procs' = [procs EXCEPT ![p].pc = "idle", ![p].outcome = "readError",
                            ![p].returned = [kind |-> "exception"],
                            ![p].readFailed = TRUE, ![p].runs = @ + 1]
  /\ UNCHANGED <<pipelineVars, wrapVars, pureVars>>

\* Lines 133-182: the engine runs; line 183 tests result.code.
RunEngine(p) ==
  /\ procs[p].pc = "engine"
  /\ IF StoreResult.code = NoCode
     THEN EndCall(p, "empty", [kind |-> "empty"])
     ELSE Goto(p, "mkdir")
  /\ UNCHANGED <<pipelineVars, wrapVars, pureVars>>

\* Line 184: fs.mkdirSync(path.dirname(cachePath), {recursive: true});
\* line 185 tests result.map.
MkdirShard(p) ==
  /\ procs[p].pc = "mkdir"
  /\ fsDirs' = Mkdir(fsDirs, StoreResult, StoreCachePath)
  /\ Goto(p, IF StoreResult.map = NoCode THEN "openCode" ELSE "openMap")
  /\ UNCHANGED <<env, tsconfigOnDisk, cachedTSConfigs, loads, sourceMaps, fsFiles,
                 babel, last, prev, ncalls, wrapVars, pureVars>>

FsUnchanged ==
  UNCHANGED <<env, tsconfigOnDisk, cachedTSConfigs, loads, sourceMaps, fsDirs,
              babel, last, prev, ncalls, wrapVars, pureVars>>

\* Line 186, first half: the map file is opened with truncation.
OpenMap(p) ==
  /\ procs[p].pc = "openMap"
  /\ fsFiles' = (StoreMapPath :> Truncated) @@ fsFiles
  /\ Goto(p, "fillMap")
  /\ FsUnchanged

\* Line 186, second half: JSON.stringify(result.map) is written in full.
FillMap(p) ==
  /\ procs[p].pc = "fillMap"
  /\ fsFiles' = (StoreMapPath :> StoreResult.map) @@ fsFiles
  /\ Goto(p, "openCode")
  /\ FsUnchanged

\* Line 187, first half: the code file is opened with truncation.
OpenCode(p) ==
  /\ procs[p].pc = "openCode"
  /\ fsFiles' = (StoreCodePath :> Truncated) @@ fsFiles
  /\ Goto(p, "fillCode")
  /\ FsUnchanged

\* Line 187, second half, and line 189: result.code is written in full and
\* returned.
FillCode(p) ==
  /\ procs[p].pc = "fillCode"
  /\ fsFiles' = (StoreCodePath :> StoreResult.code) @@ fsFiles
  /\ EndCall(p, "miss", StoreResult.code)
  /\ FsUnchanged

\* Lines 186-187: a write throws after its file was opened (ENOSPC, EIO);
\* the exception leaves transformHook and the file stays as it is.
WriteFails(p) ==
  /\ procs[p].pc \in {"fillMap", "fillCode"}
  /\ EndCall(p, "writeError", [kind |-> "exception"])
  /\ UNCHANGED <<pipelineVars, wrapVars, pureVars>>

\* The process is killed inside transformHook; the test runner starts a new
\* process with the same environment and empty in-memory tables.
Crash(p) ==
  /\ procs[p].pc # "idle"
  /\ procs' = [procs EXCEPT
       ![p] = [FreshProc(procs[p].ignoreCache) EXCEPT !.runs = procs[p].runs + 1]]
  /\ UNCHANGED <<pipelineVars, wrapVars, pureVars>>

\* The processes start with an empty cache directory; PW_IGNORE_COMPILE_CACHE
\* is part of each process's environment.
StoreInit ==
  \E ignore \in [Procs -> BOOLEAN] : procs = [p \in Procs |-> FreshProc(ignore[p])]

InitStore == PipelineIdle /\ WrapIdle /\ PureIdle /\ StoreInit

NextStore ==
  \E p \in Procs :
    \/ Enter(p)
    \/ Probe(p)
    \/ ReadCode(p)
    \/ ReadCodeFails(p)
    \/ RunEngine(p)
    \/ MkdirShard(p)
    \/ OpenMap(p)
    \/ FillMap(p)
    \/ OpenCode(p)
    \/ FillCode(p)
    \/ WriteFails(p)
    \/ Crash(p)

SpecStore == InitStore /\ [][NextStore]_vars

----------------------------------------------------------------------------
(* Properties of the transform cache.                                      *)

IsCall(c) == c.outcome # "none"
ReachedCache(c) == c.outcome \in {"hit", "miss", "empty", "threw"}
CallStep == ncalls' = ncalls + 1

\* Two consecutive calls with identical arguments and build-mode flag.  The
\* per-directory configuration of a process never changes (see C10).
SameRequestTwice ==
  /\ IsCall(prev) /\ IsCall(last)
  /\ last.code = prev.code
  /\ last.filename = prev.filename
  /\ last.isModule = prev.isModule
  /\ last.env.PW_EXPERIMENTAL_TS_ESM = prev.env.PW_EXPERIMENTAL_TS_ESM

\* C1 as stated: two consecutive identical calls return identical code and
\* the second is served from the artifact store without the engine.
C1_Original ==
  SameRequestTwice => last.returned = prev.returned /\ last.outcome = "hit"

\* C1, amended: when moreover the first call returned generated code (it was
\* not answered by the stub, the engine neither threw nor produced nothing),
\* the second call is not answered by the stub and the override is unset at
\* the second call, the second call is a hit returning the same code.
C1_CacheIdempotence ==
  ( /\ SameRequestTwice
    /\ prev.outcome \in {"hit", "miss"}
    /\ last.outcome # "stub"
    /\ ~last.env.PW_IGNORE_COMPILE_CACHE )
  => /\ last.returned = prev.returned
     /\ last.outcome = "hit"
     /\ ~last.engine

C1_Witness ==
  SameRequestTwice /\ prev.outcome = "miss" /\ last.outcome = "hit"

\* C3 as stated, for calls that reach the cache: a call whose content differs
\* from that of every earlier call for its path has a key different from the
\* earlier keys for the path and invokes the engine.  (With at most two calls
\* so far, prev is the only earlier call.)
C3_NoFalseHit ==
  ( /\ ncalls <= 2
    /\ ReachedCache(last)
    /\ ~(IsCall(prev) /\ prev.filename = last.filename /\ prev.code = last.code) )
  => /\ last.engine
     /\ (ReachedCache(prev) /\ prev.filename = last.filename)
          => prev.cachePath # last.cachePath

\* A .tsx/.jsx file whose name does not mark it as a spec or test file.
IsTsxOrJsx(f) == PathExtname(f) \in {<<".", "t", "s", "x">>, <<".", "j", "s", "x">>}
NameMarksTest(f) ==
  LET stem == PathBasename(f, PathExtname(f))
  IN  EndsWith(stem, <<"s", "p", "e", "c">>) \/ EndsWith(stem, <<"t", "e", "s", "t">>)

\* C4: in component-testing mode a call for a component file returns the
\* stub and leaves memo table, registry and artifact store as they were; any
\* other call resolves the configuration, registers the map, probes the cache
\* and, on a miss that produced code, persists it.
C4_StubBypassesCache ==
  [][CallStep =>
       LET f == last'.filename
           codePath == last'.cachePath \o JsExt
       IN  IF env.PW_COMPONENT_TESTING /\ IsTsxOrJsx(f) /\ ~NameMarksTest(f)
           THEN /\ last'.returned = componentStub
                /\ UNCHANGED <<cachedTSConfigs, sourceMaps, fsFiles, fsDirs>>
           ELSE /\ ReachedCache(last')
                /\ PathDirname(f) \in DOMAIN cachedTSConfigs'
                /\ f \in DOMAIN sourceMaps'
                /\ last'.outcome = "hit" => codePath \in DOMAIN fsFiles
                /\ last'.outcome = "miss" =>
                     /\ codePath \in DOMAIN fsFiles'
                     /\ fsFiles'[codePath] = last'.returned]_vars

C4_Witness ==
  /\ IsCall(prev) /\ prev.outcome = "stub" /\ prev.returned = componentStub
  /\ last.env.PW_COMPONENT_TESTING /\ last.filename = FileTest
  /\ last.outcome = "miss"

\* C7 as stated: a hit requires both the code file and the map file.
C7_Original ==
  last.outcome = "hit" =>
    /\ (last.cachePath \o JsExt) \in DOMAIN fsFiles
    /\ (last.cachePath \o MapExt) \in DOMAIN fsFiles

\* C7, amended: the probe reports a miss exactly when the override is set or
\* the code file is absent; the map file is not consulted.  A hit returns the
\* stored code without the engine, a miss invokes the engine.
C7_ProbeChecksCodeFile ==
  [][(CallStep /\ last'.outcome # "stub") =>
       LET codePath == last'.cachePath \o JsExt
       IN  /\ last'.outcome = "hit" <=>
                (~env.PW_IGNORE_COMPILE_CACHE /\ codePath \in DOMAIN fsFiles)
           /\ last'.outcome = "hit" =>
                ~last'.engine /\ last'.returned = fsFiles[codePath]
           /\ last'.outcome # "hit" => last'.engine]_vars

C7_Witness ==
  /\ last.outcome = "hit"
  /\ (last.cachePath \o JsExt) \in DOMAIN fsFiles
  /\ (last.cachePath \o MapExt) \notin DOMAIN fsFiles

\* C8: every call that passes the stub check leaves the registry entry of its
\* file at the map path of its own key, whatever the outcome; no step removes
\* an entry.
C8_RegistryCurrent ==
  [][/\ DOMAIN sourceMaps \subseteq DOMAIN sourceMaps'
     /\ (CallStep /\ last'.outcome # "stub") =>
          LET f == last'.filename
              key == calculateCachePath(cachedTSConfigs'[PathDirname(f)],
                       env.PW_EXPERIMENTAL_TS_ESM, last'.code, f)
          IN  /\ f \in DOMAIN sourceMaps'
              /\ sourceMaps'[f] = key \o MapExt
              /\ \A g \in DOMAIN sourceMaps : g # f => sourceMaps'[g] = sourceMaps[g]
              /\ last'.outcome = "miss" /\ babel[last'.code] = "code+map"
                   => retrieveSourceMap(sourceMaps', fsFiles', f) # Null]_vars

C8_Witness ==
  /\ ReachedCache(prev) /\ prev.filename = last.filename /\ prev.code # last.code
  /\ last.outcome = "threw"
  /\ sourceMaps[last.filename] = last.cachePath \o MapExt

----------------------------------------------------------------------------
(* Properties of calculateCachePath.                                       *)

\* The five values that contribute to the key of a request.
FiveValues(r) ==
  <<HashOrEmpty(r.tsconfigData), EsmString(r.esm), r.content, r.filePath, version>>

\* C2 as stated: two requests get the same cache path exactly when their
\* five contributing values are equal.
C2_KeyIffFiveValues ==
  keyOut # <<>> =>
    (keyOut[1] = keyOut[2] <=> FiveValues(keyIn[1]) = FiveValues(keyIn[2]))

----------------------------------------------------------------------------
(* Properties of the configuration resolver.                               *)

\* A loader result with a key made only of '*', '.', '/', '\' or with a key
\* that has more than one target.
HasAmbiguousKey(raw) ==
  /\ raw.paths.defined
  /\ \E i \in 1..Len(raw.paths.entries) :
       LET key == raw.paths.entries[i][1]
       IN  key # <<>> /\ Filter(key, AmbiguousChars) = key
HasMultiTargetKey(raw) ==
  /\ raw.paths.defined
  /\ \E i \in 1..Len(raw.paths.entries) : Len(raw.paths.entries[i][2]) >= 2

\* The cache path of a request in a directory without configuration.
PathWithoutConfig(c) ==
  calculateCachePath(Undefined, c.env.PW_EXPERIMENTAL_TS_ESM, c.code, c.filename)

\* What C9 asks of a directory d whose discovered configuration is raw.
RejectedAsAWhole(d) ==
  /\ cachedTSConfigs[d] = Undefined
  /\ (ReachedCache(last) /\ PathDirname(last.filename) = d) =>
       /\ last.tsconfigData = Undefined
       /\ last.cachePath = PathWithoutConfig(last)
       /\ last.outcome = "miss" => last.returned.plugins.alias = <<>>

\* C9 as stated: a discovered configuration with an ambiguous key or with a
\* key that has several targets is rejected as a whole.
C9_RejectsWholesale ==
  \A d \in DOMAIN cachedTSConfigs :
    (HasAmbiguousKey(loads[d][1]) \/ HasMultiTargetKey(loads[d][1]))
      => RejectedAsAWhole(d)

\* C10: discovery runs at most once per directory; the first result, absent
\* included, is what every later call for the directory gets; memo entries
\* are never changed or removed.
C10_MemoOnce ==
  [][/\ \A d \in DOMAIN cachedTSConfigs :
          d \in DOMAIN cachedTSConfigs' /\ cachedTSConfigs'[d] = cachedTSConfigs[d]
     /\ \A d \in Dirs : Len(loads'[d]) <= 1
     /\ (CallStep /\ last'.outcome # "stub") =>
          LET d == PathDirname(last'.filename)
          IN  /\ last'.loaded <=> d \notin DOMAIN cachedTSConfigs
              /\ d \in DOMAIN cachedTSConfigs =>
                   last'.tsconfigData = cachedTSConfigs[d]
              /\ last'.tsconfigData = validateTsConfig(loads'[d][1])]_vars

C10_Witness ==
  /\ ReachedCache(prev) /\ ReachedCache(last)
  /\ PathDirname(prev.filename) = PathDirname(last.filename)
  /\ prev.loaded /\ ~last.loaded
  /\ last.tsconfigData = Undefined
  /\ validateTsConfig(tsconfigOnDisk[PathDirname(last.filename)]) # Undefined

----------------------------------------------------------------------------
(* Properties of wrapFunctionWithLocation.                                 *)

FuncEnded == ended.how \in {"returned", "threw"}

\* C5 as stated: func is invoked with Error.prepareStackTrace at the value
\* it had before the call, and once the call has ended, by return or throw
\* of func, Error.prepareStackTrace has that value again; nested calls
\* included.
C5_FormatterRestored ==
  /\ \A i \in 1..Len(callStack) :
       callStack[i].pc = "func" =>
         callStack[i].atInvoke = callStack[i].oldPrepareStackTrace
  /\ FuncEnded => ended.prepareAfter = ended.prepareBefore

\* C6 as stated, in runs where no capture has thrown: once a call has ended,
\* Error.stackTraceLimit has the value it had before the call, whatever that
\* value was.
C6_LimitRestored ==
  (FuncEnded /\ ~captureFailed) => ended.limitAfter = ended.limitBefore

----------------------------------------------------------------------------
(* Properties of the artifact store under file-system failures, crashes    *)
(* and concurrent processes.                                               *)

\* C11 as stated: when the read of a code file that was found present
\* fails, the call goes on to the transformation engine and ends by
\* returning the engine's output; it does not end with the failure.
C11_ReadFailureIsMiss ==
  \A p \in DOMAIN procs :
    procs[p].readFailed =>
      \/ procs[p].pc \in {"engine", "mkdir", "openMap", "fillMap", "openCode", "fillCode"}
      \/ procs[p].outcome = "miss" /\ procs[p].returned = StoreResult.code

----------------------------------------------------------------------------
(* Further properties of the transform cache.                              *)

\* What the engine yields for the request of call c in c's environment.
FreshResult(c) ==
  TransformFileSync(babel, c.code, c.filename,
                    Plugins(c.tsconfigData, c.env.PW_COMPONENT_TESTING, c.isModule))

\* C12: with PW_IGNORE_COMPILE_CACHE set, every call that passes the stub
\* check invokes the engine and ends with the engine's fresh result (its
\* code, the empty result or its exception), whether or not the files of the
\* key exist; the setting is read on every call, so a call made with it unset
\* for a key whose code file exists is a hit.
C12_OverrideForcesEngine ==
  [][(CallStep /\ last'.outcome # "stub") =>
       LET codePath == last'.cachePath \o JsExt
           r == FreshResult(last')
       IN  /\ env.PW_IGNORE_COMPILE_CACHE =>
                /\ last'.engine
                /\ last'.outcome # "hit"
                /\ r.threw => last'.outcome = "threw"
                /\ (~r.threw /\ r.code # NoCode) =>
                     last'.outcome = "miss" /\ last'.returned = r.code
                /\ (~r.threw /\ r.code = NoCode) => last'.outcome = "empty"
           /\ (~env.PW_IGNORE_COMPILE_CACHE /\ codePath \in DOMAIN fsFiles) =>
                /\ last'.outcome = "hit"
                /\ ~last'.engine]_vars

\* The override is set, code and map file of the key exist since the call
\* before, and the engine has run again.
C12_Witness ==
  /\ prev.outcome = "miss" /\ babel[prev.code] = "code+map"
  /\ ReachedCache(last) /\ last.cachePath = prev.cachePath
  /\ last.env.PW_IGNORE_COMPILE_CACHE
  /\ last.engine /\ last.outcome = "miss"
  /\ (last.cachePath \o MapExt) \in DOMAIN fsFiles

\* C13 as stated, for writes made for the same text and path as the stored
\* artifact (so apart from keys shared by different requests, see C2): a
\* code file, once written, keeps its content under every later write.
C13_ArtifactNeverChanges ==
  [][\A f \in DOMAIN fsFiles :
       ( /\ fsFiles[f].kind = "js"
         /\ fsFiles'[f].src = fsFiles[f].src
         /\ fsFiles'[f].file = fsFiles[f].file )
       => fsFiles'[f] = fsFiles[f]]_vars

\* C14 as stated, for hits on an artifact generated from the request's own
\* text and path (so apart from C2): the code a hit returns is what the
\* engine yields for the current request, isModule and component-testing
\* mode included.
C14_HitMatchesRequest ==
  ( /\ last.outcome = "hit"
    /\ last.returned.src = last.code
    /\ last.returned.file = last.filename )
  => last.returned = FreshResult(last).code

\* C16: a miss whose engine result has code creates the shard directory,
\* writes the code file, writes the map file exactly when there is a map and
\* touches no other file; a miss whose result has no code returns the empty
\* result and writes nothing, and the same request made again next runs the
\* engine again.
C16_PersistOnMiss ==
  [][(CallStep /\ last'.outcome \in {"miss", "empty"}) =>
       LET r == FreshResult(last')
           codePath == last'.cachePath \o JsExt
           mapPath == last'.cachePath \o MapExt
       IN  /\ last'.outcome = "miss" <=> r.code # NoCode
           /\ last'.outcome = "miss" =>
                /\ PathDirname(last'.cachePath) \in fsDirs'
                /\ codePath \in DOMAIN fsFiles' /\ fsFiles'[codePath] = r.code
                /\ r.map # NoCode =>
                     mapPath \in DOMAIN fsFiles' /\ fsFiles'[mapPath] = r.map
                /\ r.map = NoCode =>
                     /\ mapPath \in DOMAIN fsFiles' <=> mapPath \in DOMAIN fsFiles
                     /\ mapPath \in DOMAIN fsFiles => fsFiles'[mapPath] = fsFiles[mapPath]
                /\ \A f \in DOMAIN fsFiles' \ {codePath, mapPath} :
                     f \in DOMAIN fsFiles /\ fsFiles'[f] = fsFiles[f]
           /\ last'.outcome = "empty" =>
                /\ last'.returned = [kind |-> "empty"]
                /\ UNCHANGED <<fsFiles, fsDirs>>
           /\ ( /\ IsCall(last) /\ last.outcome = "empty"
                /\ last'.code = last.code /\ last'.filename = last.filename
                /\ last'.isModule = last.isModule )
              => last'.engine /\ last'.outcome = "empty"]_vars

\* The engine produced no code twice in a row for the same request, and the
\* cache directory is still empty.
C16_Witness ==
  /\ SameRequestTwice
  /\ prev.outcome = "empty" /\ last.outcome = "empty" /\ last.engine
  /\ fsFiles = EmptyMap /\ fsDirs = {}

----------------------------------------------------------------------------
(* Further properties of wrapFunctionWithLocation.                         *)

\* C15 as stated: when the capture inside a wrapped call throws, formatter
\* and limit are back at their values from before the call when the
\* exception leaves the wrapper; and whenever a wrapped call has ended and
\* none is active, the capture formatter is not installed.
C15_FailedCaptureRestores ==
  /\ ended.how = "captureThrew" =>
       /\ ended.prepareAfter = ended.prepareBefore
       /\ ended.limitAfter = ended.limitBefore
  /\ (ended.how # "none" /\ callStack = <<>>) =>
       prepareStackTrace # CaptureFormatter

----------------------------------------------------------------------------
(* Further properties of the artifact store.                               *)

\* The map a process gets from retrieveSourceMap for the transformed file.
MapBehind(p) == retrieveSourceMap(procs[p].registry, fsFiles, StoreFile)

\* C17 as stated, for a key whose engine result has a map: in every state of
\* the cache directory, if the code file exists then the map file exists
\* with its full content; and a process whose call was a hit gets the full
\* map from retrieveSourceMap.
C17_CodeImpliesFullMap ==
  StoreResult.map # NoCode =>
    /\ StoreCodePath \in DOMAIN fsFiles =>
         /\ StoreMapPath \in DOMAIN fsFiles
         /\ fsFiles[StoreMapPath] = StoreResult.map
    /\ \A p \in DOMAIN procs :
         (procs[p].pc = "idle" /\ procs[p].outcome = "hit") =>
           /\ MapBehind(p) # Null
           /\ MapBehind(p).map = StoreResult.map

\* C18 as stated: every call that ended as a cache hit, in any process,
\* returned the complete generated code of the key.
C18_HitReturnsCompleteCode ==
  \A p \in DOMAIN procs :
    procs[p].outcome = "hit" => procs[p].returned = StoreResult.code

----------------------------------------------------------------------------
(* Properties of the alias resolvers.                                      *)

\* A relative path, written with a leading './' or without, below an
\* absolute directory.
Below(dir, rel) ==
  LET r == IF StartsWith(rel, <<".", Slash>>) THEN SubSeq(rel, 3, Len(rel)) ELSE rel
      tidy == IF r # <<>> /\ r[Len(r)] = Slash THEN SubSeq(r, 1, Len(r) - 1) ELSE r
  IN  (IF dir = <<Slash>> THEN <<>> ELSE dir) \o <<Slash>> \o tidy

\* C19: for an accepted configuration, the resolver of a key that ends in
\* '/*' maps a matched specifier to the target with its trailing '*' replaced
\* by what follows the key's prefix in the specifier, below the absolute base
\* directory; the resolver of any other key maps every matched specifier to
\* the target itself below the base directory.
\* (The targets of '/*' keys end in '*', as the claim supposes.)
C19_AliasResolution ==
  (aliasOut # <<>> /\ aliasOut.tsconfigData.defined) =>
    \A i \in 1..Len(aliasOut.resolved) :
      LET key == aliasOut.tsconfigData.singlePath[i][1]
          target == aliasOut.tsconfigData.singlePath[i][2]
          base == aliasOut.tsconfigData.absoluteBaseUrl
          prefix == SubSeq(key, 1, Len(key) - 1)
          suffix == SubSeq(aliasIn.specifier, Len(prefix) + 1, Len(aliasIn.specifier))
          r == aliasOut.resolved[i]
      IN  r.matched =>
            IF EndsWith(key, <<Slash, "*">>)
            THEN /\ aliasIn.specifier = prefix \o suffix
                 /\ r.path = Below(base, SubSeq(target, 1, Len(target) - 1) \o suffix)
            ELSE r.path = Below(base, target)

\* tsconfig.json in /a with baseUrl 'src' and lib/* -> ./src/lib/*: the
\* specifier lib/foo/bar resolves to /a/src/src/lib/foo/bar.
C19_Witness ==
  /\ aliasOut # <<>> /\ aliasOut.tsconfigData.defined
  /\ aliasOut.tsconfigData.absoluteBaseUrl = <<Slash, "a", Slash, "s", "r", "c">>
  /\ \E i \in 1..Len(aliasOut.resolved) :
       /\ aliasOut.tsconfigData.singlePath[i] = <<KeyLib, TargetLib>>
       /\ aliasOut.resolved[i].matched
       /\ aliasOut.resolved[i].name =
            <<"l", "i", "b", Slash, "f", "o", "o", Slash, "b", "a", "r">>
       /\ aliasOut.resolved[i].path =
            <<Slash, "a", Slash, "s", "r", "c", Slash, "s", "r", "c", Slash,
              "l", "i", "b", Slash, "f", "o", "o", Slash, "b", "a", "r">>

====
